---------------------------- MODULE Spec2Model ----------------------------
(***************************************************************************)
(* Model of the submission-reports service: the two chart aggregators of   *)
(* src/src/charts.py, the report assembler of src/src/pdf_generator.py     *)
(* and the request handler _generate_report of src/src/app.py.             *)
(*                                                                         *)
(* Three specifications share the variables:                               *)
(*   SpecAgg  one direct call of an aggregator on a bounded batch          *)
(*   SpecPdf  one direct call of create_pdf_report                         *)
(*   Spec     concurrent calls of _generate_report on a shared filesystem  *)
(***************************************************************************)
EXTENDS Integers, Sequences, FiniteSets, TLC

VARIABLES
    \* --- direct aggregator call (SpecAgg)
    observations,   \* the batch handed to the aggregator
    aggPc,          \* "start" | "done"
    aggResult,      \* what the call returned or raised (AggAcc record + variant)
    renderFail,     \* statistics whose plt.savefig raises in this call
    \* --- direct assembler call (SpecPdf)
    pdfPc,          \* "start" | "done"
    pdfArgs,        \* arguments of create_pdf_report
    pdfDisk,        \* chart files present on disk for that call
    pdfResult,      \* what create_pdf_report returned or raised
    \* --- request handler (Spec)
    MAX_OBSERVATIONS, \* Config.MAX_OBSERVATIONS as read from the environment
    pc,             \* per call: position in _generate_report
    req_obs,        \* per call: the validated observations
    report_type,    \* per call: 'sightings' | 'reportings'
    stat,           \* per call: next statistic of the aggregator (1..7)
    acc,            \* per call: aggregator locals (chart_files, summary_data)
    chart_files,    \* per call: _generate_report's chart_files
    summary_data,   \* per call: _generate_report's summary_data
    response,       \* per call: the response returned
    event,          \* per call: what the call went through (history)
    upload,         \* UPLOAD_FOLDER: file name -> writer of its content, 0 absent
    output          \* OUTPUT_FOLDER: set of calls whose <uuid>.pdf is present

aggVars == <<observations, aggPc, aggResult, renderFail>>
pdfVars == <<pdfPc, pdfArgs, pdfDisk, pdfResult>>
appVars == <<MAX_OBSERVATIONS, pc, req_obs, report_type, stat, acc, chart_files,
             summary_data, response, event, upload, output>>
vars == <<aggVars, pdfVars, appVars>>

(***************************************************************************)
(* JSON / Python values.  Every value carries its kind, so that the        *)
(* dynamic checks of the code (truthiness, isinstance, hashability) are    *)
(* computed and not assumed.                                               *)
(***************************************************************************)
JNone == [k |-> "none"]
JStr(s) == [k |-> "str", s |-> s]
JInt(n) == [k |-> "int", n |-> n]
JList(l) == [k |-> "list", l |-> l]
JDict(m) == [k |-> "dict", m |-> m]
EmptyMap == [x \in {} |-> JNone]

\* Python truthiness: `if value:`
Truthy(v) ==
    CASE v.k = "none" -> FALSE
      [] v.k = "str"  -> v.s # ""
      [] v.k = "int"  -> v.n # 0
      [] v.k = "list" -> v.l # <<>>
      [] v.k = "dict" -> DOMAIN v.m # {}

IsDict(v) == v.k = "dict"
IsList(v) == v.k = "list"
\* usable as a Counter key (lists and dicts raise TypeError: unhashable)
Hashable(v) == v.k \in {"none", "str", "int"}

\* dict.get(name, default); the receiver is a dict
PyGet(d, name, default) == IF name \in DOMAIN d.m THEN d.m[name] ELSE default

Front(s) == SubSeq(s, 1, Len(s) - 1)
Range(f) == {f[i] : i \in DOMAIN f}

\* `for x in v` and list.extend(v): a list yields its elements, None and an
\* int raise TypeError (the batches hold no str or dict where the code
\* iterates)
Iterable(v) == IsList(v)

RECURSIVE Concat(_)
Concat(ss) == IF ss = <<>> THEN <<>> ELSE Concat(Front(ss)) \o ss[Len(ss)]

RECURSIVE Sum(_)
Sum(ns) == IF ns = <<>> THEN 0 ELSE Sum(Front(ns)) + ns[Len(ns)]

(***************************************************************************)
(* collections.Counter, kept in first-encountered (insertion) order as a   *)
(* sequence of <<key, count>> pairs, and the two sorts the code applies.   *)
(***************************************************************************)
CounterAdd(ctr, key) ==
    IF \E i \in DOMAIN ctr : ctr[i][1] = key
    THEN [i \in DOMAIN ctr |-> IF ctr[i][1] = key THEN <<key, ctr[i][2] + 1>> ELSE ctr[i]]
    ELSE Append(ctr, <<key, 1>>)

RECURSIVE Counter(_)
Counter(list) ==
    IF list = <<>> THEN <<>> ELSE CounterAdd(Counter(Front(list)), list[Len(list)])

\* sorted(items, key=lambda x: x[1], reverse=True): stable, count descending
InsertDesc(sorted, x) ==
    LET p == Cardinality({i \in DOMAIN sorted : sorted[i][2] >= x[2]})
    IN  SubSeq(sorted, 1, p) \o <<x>> \o SubSeq(sorted, p + 1, Len(sorted))

RECURSIVE SortedByCountDesc(_)
SortedByCountDesc(items) ==
    IF items = <<>> THEN <<>>
    ELSE InsertDesc(SortedByCountDesc(Front(items)), items[Len(items)])

\* str < str of Python: lexicographic on code points
RECURSIVE StrLess(_, _)
StrLess(a, b) ==
    IF b = <<>> THEN FALSE
    ELSE IF a = <<>> THEN TRUE
    ELSE IF a[1] # b[1] THEN a[1] < b[1]
    ELSE StrLess(Tail(a), Tail(b))

\* sorted(monthly_counts.items()): ascending on the (key, count) tuples; the
\* keys of a Counter are distinct, so the key decides
InsertAsc(sorted, x) ==
    LET p == Cardinality({i \in DOMAIN sorted : ~StrLess(x[1].cp, sorted[i][1].cp)})
    IN  SubSeq(sorted, 1, p) \o <<x>> \o SubSeq(sorted, p + 1, Len(sorted))

\* a variant that keeps the Counter's insertion order
SortedItems_unsorted(items) == items

RECURSIVE SortedItems(_)
SortedItems(items) ==
    IF items = <<>> THEN <<>>
    ELSE InsertAsc(SortedItems(Front(items)), items[Len(items)])

(***************************************************************************)
(* Timestamps.  The strings the batches use, and what                      *)
(* datetime.fromisoformat(observed_at.replace('Z', '+00:00')) makes of     *)
(* them: a datetime (year, month) or ValueError.                           *)
(***************************************************************************)
fromisoformat(s) ==
    CASE s = "2025-03-01T00:00:00Z"      -> [ok |-> TRUE, year |-> 2025, month |-> 3]
      [] s = "2025-01-15T00:00:00Z"      -> [ok |-> TRUE, year |-> 2025, month |-> 1]
      [] s = "2025-01-20T00:00:00+05:30" -> [ok |-> TRUE, year |-> 2025, month |-> 1]
      [] s = "2024-12-31T23:59:59Z"      -> [ok |-> TRUE, year |-> 2024, month |-> 12]
      [] s = "2025-10-02"                -> [ok |-> TRUE, year |-> 2025, month |-> 10]
      [] OTHER                           -> [ok |-> FALSE, year |-> 0, month |-> 0]

\* a str given by its code points (where the code compares or formats it)
JChars(cp) == [k |-> "str", cp |-> cp]

\* dt.strftime('%Y-%m'): four digits, '-', two digits
Digit(d) == 48 + d
strftime_Ym(dt) ==
    JChars(<< Digit(dt.year \div 1000), Digit((dt.year \div 100) % 10),
              Digit((dt.year \div 10) % 10), Digit(dt.year % 10), 45,
              Digit(dt.month \div 10), Digit(dt.month % 10) >>)

(***************************************************************************)
(* A statistic's outcome: "ok" with its Summary Entry and chart file,      *)
(* "empty" (the `if <data>:` guard is false: nothing is rendered) or       *)
(* "error" (the computation raised).                                       *)
(***************************************************************************)
StatOk(title, file, data) == [st |-> "ok", title |-> title, file |-> file, data |-> data]
StatEmpty == [st |-> "empty"]
StatError(msg) == [st |-> "error", err |-> msg]

AllDicts(seq) == \A i \in DOMAIN seq : IsDict(seq[i])
AllHashable(seq) == \A i \in DOMAIN seq : Hashable(seq[i])

\* Counter(<list>) of a list that the `if <list>:` guard found non-empty
CountStat(title, file, list) ==
    IF list = <<>> THEN StatEmpty
    ELSE IF ~AllHashable(list) THEN StatError(<<"unhashable type">>)
    ELSE StatOk(title, file, SortedByCountDesc(Counter(list)))

\* ---- 1. monthly frequency (both variants)
MonthKeyOf(obs) ==
    LET observed_at == PyGet(obs, "observedAt", JNone)
    IN  IF ~Truthy(observed_at) THEN <<>>
        \* a non-str has no .replace: AttributeError, caught, continue
        ELSE IF observed_at.k # "str" THEN <<>>
        \* ValueError, caught, continue
        ELSE IF ~fromisoformat(observed_at.s).ok THEN <<>>
        ELSE <<strftime_Ym(fromisoformat(observed_at.s))>>

monthly_counts(obsv) == Counter(Concat([i \in DOMAIN obsv |-> MonthKeyOf(obsv[i])]))

MonthlyStat(obsv) ==
    IF ~AllDicts(obsv) THEN StatError(<<"object has no attribute 'get'">>)
    ELSE IF monthly_counts(obsv) = <<>> THEN StatEmpty
    ELSE StatOk("Monthly Frequency Summary", "chart_monthly_frequency.png",
                SortedItems(monthly_counts(obsv)))

\* ---- 2. and 3. block, district: [obs.get(f) for obs in observations if obs.get(f)]
ScalarField(obsv, name) ==
    Concat([i \in DOMAIN obsv |->
        LET v == PyGet(obsv[i], name, JNone) IN IF Truthy(v) THEN <<v>> ELSE <<>>])

BlockStat(obsv) ==
    IF ~AllDicts(obsv) THEN StatError(<<"object has no attribute 'get'">>)
    ELSE CountStat("Block Summary", "chart_blocks.png", ScalarField(obsv, "block"))

DistrictStat(obsv) ==
    IF ~AllDicts(obsv) THEN StatError(<<"object has no attribute 'get'">>)
    ELSE CountStat("District Summary", "chart_districts.png", ScalarField(obsv, "district"))

\* ---- sightings 4. and 5. waterBody, weatherCondition: a list is extended,
\* anything else truthy (the legacy single string) is appended
MultiField(obsv, name) ==
    Concat([i \in DOMAIN obsv |->
        LET v == PyGet(obsv[i], name, JList(<<>>))
        IN  IF ~Truthy(v) THEN <<>> ELSE IF IsList(v) THEN v.l ELSE <<v>>])

WaterBodyStat(obsv) ==
    IF ~AllDicts(obsv) THEN StatError(<<"object has no attribute 'get'">>)
    ELSE CountStat("Water Body Type Summary", "chart_waterbodies.png",
                   MultiField(obsv, "waterBody"))

WeatherStat(obsv) ==
    IF ~AllDicts(obsv) THEN StatError(<<"object has no attribute 'get'">>)
    ELSE CountStat("Weather Condition Summary", "chart_weather.png",
                   MultiField(obsv, "weatherCondition"))

\* ---- sightings 6. threats: all_threats.extend(threats) when truthy
ThreatValues(obsv) ==
    [i \in DOMAIN obsv |-> PyGet(obsv[i], "threats", JList(<<>>))]

ThreatsStat(obsv) ==
    IF ~AllDicts(obsv) THEN StatError(<<"object has no attribute 'get'">>)
    ELSE IF \E i \in DOMAIN obsv : Truthy(ThreatValues(obsv)[i]) /\ ~Iterable(ThreatValues(obsv)[i])
    THEN StatError(<<"object is not iterable">>)
    ELSE CountStat("Threats Summary", "chart_threats.png",
                   Concat([i \in DOMAIN obsv |->
                       IF Truthy(ThreatValues(obsv)[i]) THEN ThreatValues(obsv)[i].l ELSE <<>>]))

\* ---- species entries: for obs in observations: for sp in obs.get('species', [])
SpeciesValues(obsv) == [i \in DOMAIN obsv |-> PyGet(obsv[i], "species", JList(<<>>))]
SpeciesIterable(obsv) == \A i \in DOMAIN obsv : Iterable(SpeciesValues(obsv)[i])
SpeciesEntries(obsv) == Concat([i \in DOMAIN obsv |-> SpeciesValues(obsv)[i].l])

\* sp.get(name, 0) used as a number
IsInt(v) == v.k = "int"
Count(sp, name) == PyGet(sp, name, JInt(0))
AgeCountFields == {"adult", "adultMale", "adultFemale", "subAdult", "unidentified"}

\* ---- sightings 7. age groups
SightingsAgeGroups(entries) ==
    << <<JStr("Adult"), Sum([j \in DOMAIN entries |->
            Count(entries[j], "adult").n + Count(entries[j], "adultMale").n
            + Count(entries[j], "adultFemale").n])>>,
       <<JStr("Sub-Adult"), Sum([j \in DOMAIN entries |-> Count(entries[j], "subAdult").n])>>,
       <<JStr("Unidentified"), Sum([j \in DOMAIN entries |-> Count(entries[j], "unidentified").n])>> >>

SightingsAgeStat(obsv) ==
    IF ~AllDicts(obsv) THEN StatError(<<"object has no attribute 'get'">>)
    ELSE IF ~SpeciesIterable(obsv) THEN StatError(<<"object is not iterable">>)
    ELSE IF ~AllDicts(SpeciesEntries(obsv)) THEN StatError(<<"object has no attribute 'get'">>)
    ELSE IF \E j \in DOMAIN SpeciesEntries(obsv) : \E f \in AgeCountFields :
                ~IsInt(Count(SpeciesEntries(obsv)[j], f))
    THEN StatError(<<"unsupported operand type(s) for +">>)
    ELSE LET age_groups == SightingsAgeGroups(SpeciesEntries(obsv))
         IN  IF \E g \in DOMAIN age_groups : age_groups[g][2] > 0
             THEN StatOk("Age Group Summary", "chart_agegroups.png",
                         SortedByCountDesc(age_groups))
             ELSE StatEmpty

\* ---- reportings 4. species: species_counts[sp.get('type', 'Unknown')] += 1
SpeciesStat(obsv) ==
    IF ~AllDicts(obsv) THEN StatError(<<"object has no attribute 'get'">>)
    ELSE IF ~SpeciesIterable(obsv) THEN StatError(<<"object is not iterable">>)
    ELSE IF ~AllDicts(SpeciesEntries(obsv)) THEN StatError(<<"object has no attribute 'get'">>)
    ELSE CountStat("Species Summary", "chart_species.png",
                   [j \in DOMAIN SpeciesEntries(obsv) |->
                       PyGet(SpeciesEntries(obsv)[j], "type", JStr("Unknown"))])

\* the {stranded, injured, dead} mappings of the given age groups of the
\* entries: age_data = sp.get(age_group, {}), kept if isinstance(age_data, dict)
AgeData(entries, groups) ==
    Concat([j \in DOMAIN entries |->
        Concat([g \in DOMAIN groups |->
            LET age_data == PyGet(entries[j], groups[g], JDict(EmptyMap))
            IN  IF IsDict(age_data) THEN <<age_data>> ELSE <<>>])])

StatusKeys == {"stranded", "injured", "dead"}
StatusInts(data) ==
    \A d \in DOMAIN data : \A key \in StatusKeys : IsInt(PyGet(data[d], key, JInt(0)))
SumStatus(data, key) == Sum([d \in DOMAIN data |-> PyGet(data[d], key, JInt(0)).n])

\* ---- reportings 5. status
StatusAgeGroups == <<"adult", "adultMale", "adultFemale", "subAdult">>

StatusStat(obsv) ==
    IF ~AllDicts(obsv) THEN StatError(<<"object has no attribute 'get'">>)
    ELSE IF ~SpeciesIterable(obsv) THEN StatError(<<"object is not iterable">>)
    ELSE IF ~AllDicts(SpeciesEntries(obsv)) THEN StatError(<<"object has no attribute 'get'">>)
    ELSE LET data == AgeData(SpeciesEntries(obsv), StatusAgeGroups)
         IN  IF ~StatusInts(data) THEN StatError(<<"unsupported operand type(s) for +=">>)
             ELSE LET status_counts ==
                          << <<JStr("Stranded"), SumStatus(data, "stranded")>>,
                             <<JStr("Injured"), SumStatus(data, "injured")>>,
                             <<JStr("Dead"), SumStatus(data, "dead")>> >>
                  IN  IF \E g \in DOMAIN status_counts : status_counts[g][2] # 0
                      THEN StatOk("Status Summary", "chart_status.png",
                                  SortedByCountDesc(status_counts))
                      ELSE StatEmpty

\* ---- reportings 6. causes
CauseValues(obsv) == [i \in DOMAIN obsv |-> PyGet(obsv[i], "causes", JList(<<>>))]
CauseItems(obsv) == Concat([i \in DOMAIN obsv |-> CauseValues(obsv)[i].l])
\* f"Other: {other_cause}" of a str
OtherLabel(other_cause) == JStr("Other: " \o other_cause.s)
CausesOf(cause_item) ==
    LET causes == PyGet(cause_item, "cause", JList(<<>>))
        other_cause == PyGet(cause_item, "otherCause", JNone)
    IN  (IF Truthy(causes) THEN causes.l ELSE <<>>)
        \o (IF Truthy(other_cause) THEN <<OtherLabel(other_cause)>> ELSE <<>>)

CausesStat(obsv) ==
    IF ~AllDicts(obsv) THEN StatError(<<"object has no attribute 'get'">>)
    ELSE IF \E i \in DOMAIN obsv : ~Iterable(CauseValues(obsv)[i])
    THEN StatError(<<"object is not iterable">>)
    ELSE IF ~AllDicts(CauseItems(obsv)) THEN StatError(<<"object has no attribute 'get'">>)
    ELSE IF \E j \in DOMAIN CauseItems(obsv) :
                LET causes == PyGet(CauseItems(obsv)[j], "cause", JList(<<>>))
                IN  Truthy(causes) /\ ~Iterable(causes)
    THEN StatError(<<"object is not iterable">>)
    ELSE CountStat("Causes Summary", "chart_causes.png",
                   Concat([j \in DOMAIN CauseItems(obsv) |-> CausesOf(CauseItems(obsv)[j])]))

\* ---- reportings 7. age groups
\* a variant that adds up the stranded only
ReportingsAgeSum_strandedOnly(entries, group) ==
    SumStatus(AgeData(entries, <<group>>), "stranded")

ReportingsAgeSum(entries, group) ==
    LET data == AgeData(entries, <<group>>)
    IN  SumStatus(data, "stranded") + SumStatus(data, "injured") + SumStatus(data, "dead")

ReportingsAgeStat(obsv) ==
    IF ~AllDicts(obsv) THEN StatError(<<"object has no attribute 'get'">>)
    ELSE IF ~SpeciesIterable(obsv) THEN StatError(<<"object is not iterable">>)
    ELSE IF ~AllDicts(SpeciesEntries(obsv)) THEN StatError(<<"object has no attribute 'get'">>)
    ELSE IF ~StatusInts(AgeData(SpeciesEntries(obsv), StatusAgeGroups))
    THEN StatError(<<"unsupported operand type(s) for +">>)
    ELSE LET entries == SpeciesEntries(obsv)
             age_groups ==
                 << <<JStr("Adult"), ReportingsAgeSum(entries, "adult")>>,
                    <<JStr("Adult Male"), ReportingsAgeSum(entries, "adultMale")>>,
                    <<JStr("Adult Female"), ReportingsAgeSum(entries, "adultFemale")>>,
                    <<JStr("Sub-Adult"), ReportingsAgeSum(entries, "subAdult")>> >>
         IN  IF \E g \in DOMAIN age_groups : age_groups[g][2] # 0
             THEN StatOk("Age Group Summary", "chart_agegroups.png",
                         SortedByCountDesc(age_groups))
             ELSE StatEmpty

(***************************************************************************)
(* The two aggregators: seven statistics in sequence.  Statistics 1 and 2  *)
(* sit in a try/except that swallows their exception; 3..7 do not, so an   *)
(* exception there leaves the function, with the charts of the earlier     *)
(* statistics already written.                                             *)
(***************************************************************************)
NumStats == 7
TryWrapped == {1, 2}

\* a variant that computes the district statistic before the block one
Statistic_swapped(variant, k, obsv) ==
    CASE k = 1 -> MonthlyStat(obsv)
      [] k = 2 -> DistrictStat(obsv)
      [] k = 3 -> BlockStat(obsv)
      [] k = 4 -> IF variant = "reportings" THEN SpeciesStat(obsv) ELSE WaterBodyStat(obsv)
      [] k = 5 -> IF variant = "reportings" THEN StatusStat(obsv) ELSE WeatherStat(obsv)
      [] k = 6 -> IF variant = "reportings" THEN CausesStat(obsv) ELSE ThreatsStat(obsv)
      [] k = 7 -> IF variant = "reportings" THEN ReportingsAgeStat(obsv) ELSE SightingsAgeStat(obsv)

Statistic(variant, k, obsv) ==
    IF variant = "reportings"
    THEN CASE k = 1 -> MonthlyStat(obsv)
           [] k = 2 -> BlockStat(obsv)
           [] k = 3 -> DistrictStat(obsv)
           [] k = 4 -> SpeciesStat(obsv)
           [] k = 5 -> StatusStat(obsv)
           [] k = 6 -> CausesStat(obsv)
           [] k = 7 -> ReportingsAgeStat(obsv)
    ELSE CASE k = 1 -> MonthlyStat(obsv)
           [] k = 2 -> BlockStat(obsv)
           [] k = 3 -> DistrictStat(obsv)
           [] k = 4 -> WaterBodyStat(obsv)
           [] k = 5 -> WeatherStat(obsv)
           [] k = 6 -> ThreatsStat(obsv)
           [] k = 7 -> SightingsAgeStat(obsv)

\* os.path.join(output_folder, name)
path_join(folder, name) == folder \o "/" \o name

\* plt.savefig(chart_path) of statistic k: raises when the environment fails it
Rendered(k, s, output_folder, rf) ==
    IF s.st = "ok" /\ k \in rf
    THEN StatError(<<"[Errno 28] No space left on device">>)
    ELSE s

AggStart == [chart_files |-> <<>>, summary_data |-> <<>>, raised |-> FALSE, err |-> <<>>]

\* statistic k of the function body, from the locals a
AggStep(variant, k, obsv, output_folder, rf, a) ==
    LET s == Rendered(k, Statistic(variant, k, obsv), output_folder, rf)
    IN  CASE s.st = "ok" ->
               [a EXCEPT !.chart_files = Append(@, path_join(output_folder, s.file)),
                         !.summary_data = Append(@, [title |-> s.title, data |-> s.data])]
          [] s.st = "empty" -> a
          [] s.st = "error" ->
               IF k \in TryWrapped THEN a
               ELSE [a EXCEPT !.raised = TRUE, !.err = s.err]

RECURSIVE AggRun(_, _, _, _, _)
AggRun(variant, k, obsv, output_folder, rf) ==
    IF k = 0 THEN AggStart
    ELSE LET a == AggRun(variant, k - 1, obsv, output_folder, rf)
         IN  IF a.raised THEN a ELSE AggStep(variant, k, obsv, output_folder, rf, a)

\* `if not observations: raise ValueError(...)`, then the seven statistics
generate_charts_for(variant, obsv, output_folder, rf) ==
    IF obsv = <<>>
    THEN [AggStart EXCEPT !.raised = TRUE, !.err = <<"No observations provided">>]
    ELSE AggRun(variant, NumStats, obsv, output_folder, rf)

generate_charts_for_sightings(obsv, output_folder, rf) ==
    generate_charts_for("sightings", obsv, output_folder, rf)

generate_charts_for_reportings(obsv, output_folder, rf) ==
    generate_charts_for("reportings", obsv, output_folder, rf)

(***************************************************************************)
(* The writes of an aggregator to list objects.  water_bodies, weather,    *)
(* all_threats and all_causes are extended and appended to in place; each  *)
(* is bound to a new list (`water_bodies = []`), so the object written is  *)
(* a local one.  An accumulator names the object: a local list, or the     *)
(* list held by field `name` of observation `obs` of the input.            *)
(***************************************************************************)
LocalList == [obj |-> "local"]

\* a variant that starts from the first list found in the input instead of
\* a new one (`water_bodies = water_body_list`)
Accumulator_aliased(obsv, name) ==
    LET lists == {i \in DOMAIN obsv :
                     IsDict(obsv[i]) /\ name \in DOMAIN obsv[i].m /\ IsList(obsv[i].m[name])}
    IN  IF lists = {} THEN LocalList
        ELSE [obj |-> "input", obs |-> CHOOSE i \in lists : \A j \in lists : i <= j,
              name |-> name]

Accumulator(obsv, name) == LocalList

\* the values the accumulating loop of a field adds to its list
Accumulated(obsv, name) ==
    CASE name \in {"waterBody", "weatherCondition"} -> MultiField(obsv, name)
      [] name = "threats" ->
            Concat([i \in DOMAIN obsv |->
                IF Truthy(ThreatValues(obsv)[i]) THEN ThreatValues(obsv)[i].l ELSE <<>>])
      [] name = "causes" ->
            Concat([j \in DOMAIN CauseItems(obsv) |-> CausesOf(CauseItems(obsv)[j])])

\* the input after the loop of statistic k has run to its end
AfterLoop(obsv, name) ==
    LET target == Accumulator(obsv, name)
    IN  IF target.obj = "local" THEN obsv
        ELSE [obsv EXCEPT ![target.obs] =
                 JDict([@.m EXCEPT ![name] =
                     JList(Accumulated(obsv, name))])]

\* the statistics with such a loop, and their fields
AccumulatingFields(variant) ==
    IF variant = "reportings" THEN <<[k |-> 6, name |-> "causes"]>>
    ELSE <<[k |-> 4, name |-> "waterBody"], [k |-> 5, name |-> "weatherCondition"],
           [k |-> 6, name |-> "threats"]>>

\* the caller's observation list when the call has returned or raised: the
\* loops of the statistics that were reached and did not fail have written
RECURSIVE InputAfter(_, _, _, _, _)
InputAfter(variant, n, obsv, output_folder, rf) ==
    IF n = 0 \/ obsv = <<>> THEN obsv
    ELSE LET f == AccumulatingFields(variant)[n]
             before == InputAfter(variant, n - 1, obsv, output_folder, rf)
         IN  IF /\ Accumulator(before, f.name) # LocalList
                /\ ~AggRun(variant, f.k - 1, obsv, output_folder, rf).raised
                /\ Statistic(variant, f.k, obsv).st # "error"
             THEN AfterLoop(before, f.name)
             ELSE before

(***************************************************************************)
(* The batches.  Pool holds the observations the model draws from; a batch *)
(* is a sequence of at most MaxObs of them.                                *)
(***************************************************************************)
MaxObs == 3

Sp(m) == JDict(m)
Pool ==
  << \* 1: sightings, legacy scalar waterBody
     JDict([observedAt |-> JStr("2025-03-01T00:00:00Z"), block |-> JStr("A"),
            district |-> JStr("Coastal"), waterBody |-> JStr("River"),
            threats |-> JList(<<JStr("Net")>>),
            species |-> JList(<<Sp([adult |-> JInt(1), subAdult |-> JInt(2)])>>)]),
     \* 2: sightings, list-valued fields
     JDict([observedAt |-> JStr("2025-01-15T00:00:00Z"), block |-> JStr("B"),
            district |-> JStr("Coastal"), waterBody |-> JList(<<JStr("River"), JStr("Sea")>>),
            weatherCondition |-> JList(<<JStr("Sunny")>>),
            species |-> JList(<<Sp([unidentified |-> JInt(1)])>>)]),
     \* 3: an earlier year, a later month
     JDict([observedAt |-> JStr("2024-12-31T23:59:59Z"), block |-> JStr("A"),
            waterBody |-> JList(<<JStr("River")>>), weatherCondition |-> JStr("Sunny"),
            threats |-> JList(<<JStr("boat_strike"), JStr("Net")>>)]),
     \* 4: no recognized field
     JDict(EmptyMap),
     \* 5: unparsable timestamp, empty block, all-zero counts
     JDict([observedAt |-> JStr("not-a-date"), block |-> JStr(""),
            district |-> JStr("Inland"),
            species |-> JList(<<Sp([adult |-> JInt(0)])>>)]),
     \* 6: threats is a number
     JDict([observedAt |-> JStr("2025-10-02"), block |-> JStr("B"), threats |-> JInt(5)]),
     \* 7: timestamp is a number, district is a list
     JDict([observedAt |-> JInt(20250101), district |-> JList(<<JStr("Coastal")>>)]),
     \* 8: reportings, one species with status counts and causes
     JDict([observedAt |-> JStr("2025-01-20T00:00:00+05:30"), block |-> JStr("A"),
            species |-> JList(<<Sp([type |-> JStr("Dolphin"),
                  adult |-> JDict([stranded |-> JInt(1), injured |-> JInt(2), dead |-> JInt(0)])])>>),
            causes |-> JList(<<JDict([cause |-> JList(<<JStr("Net")>>),
                                      otherCause |-> JStr("Boat")])>>)]),
     \* 9: reportings, only the unidentified age group
     JDict([species |-> JList(<<Sp([type |-> JStr("Turtle"),
                  unidentified |-> JDict([dead |-> JInt(1)])])>>)]),
     \* 10: reportings, a non-mapping age group and a missing type
     JDict([district |-> JStr("Coastal"),
            species |-> JList(<<Sp([adultMale |-> JInt(3),
                                    subAdult |-> JDict([dead |-> JInt(2)])])>>),
            causes |-> JList(<<JDict([cause |-> JList(<<JStr("Net")>>)])>>)]),
     \* 11: sightings, an empty string, bare and in a list
     JDict([waterBody |-> JStr(""), weatherCondition |-> JList(<<JStr("")>>)])
  >>

Batches ==
    UNION {{[i \in 1..n |-> Pool[ix[i]]] : ix \in [1..n -> DOMAIN Pool]} : n \in 0..MaxObs}

UPLOAD_FOLDER == "PROJECT_ROOT/temp"
OUTPUT_FOLDER == "PROJECT_ROOT/output"

\* the environment fails the rendering of at most one statistic of a call
RenderFailChoices == {{}} \cup {{k} : k \in 1..NumStats}

(***************************************************************************)
(* SpecAgg: one direct call of an aggregator.                              *)
(***************************************************************************)
NoResult == [variant |-> "none"]

AggCall(variant, result(_)) ==
    /\ aggPc = "start"
    /\ \E rf \in RenderFailChoices :
         /\ renderFail' = rf
         /\ aggResult' = [variant |-> variant,
                          observations_after |->
                              InputAfter(variant, Len(AccumulatingFields(variant)),
                                         observations, UPLOAD_FOLDER, rf),
                          ret |-> result(rf)]
    /\ aggPc' = "done"
    /\ UNCHANGED <<observations, pdfVars, appVars>>

CallSightings ==
    AggCall("sightings", LAMBDA rf : generate_charts_for_sightings(observations, UPLOAD_FOLDER, rf))

CallReportings ==
    AggCall("reportings", LAMBDA rf : generate_charts_for_reportings(observations, UPLOAD_FOLDER, rf))

NextAgg == CallSightings \/ CallReportings

\* int(os.getenv('MAX_OBSERVATIONS', 10000))
DefaultMaxObservations == 10000

\* a component no call of which is in progress
AggIdle ==
    /\ observations = <<>> /\ aggPc = "idle" /\ aggResult = NoResult
PdfIdle ==
    /\ pdfPc = "idle" /\ pdfArgs = <<>> /\ pdfDisk = <<>> /\ pdfResult = <<>>
AppIdle ==
    /\ MAX_OBSERVATIONS = DefaultMaxObservations
    /\ pc = <<>> /\ req_obs = <<>> /\ report_type = <<>> /\ stat = <<>> /\ acc = <<>>
    /\ chart_files = <<>> /\ summary_data = <<>> /\ response = <<>> /\ event = <<>>
    /\ upload = <<>> /\ output = {}

InitAgg ==
    /\ observations \in Batches
    /\ aggPc = "start"
    /\ aggResult = NoResult
    /\ renderFail = {}
    /\ PdfIdle /\ AppIdle

SpecAgg == InitAgg /\ [][NextAgg]_vars

(***************************************************************************)
(* create_pdf_report (src/src/pdf_generator.py).  disk maps a chart path   *)
(* to the writer of the file's content, 0 when the file does not exist.    *)
(* The document is the story handed to doc.build: the flowables in order.  *)
(***************************************************************************)
ChartNames ==
    {"chart_monthly_frequency.png", "chart_blocks.png", "chart_districts.png",
     "chart_waterbodies.png", "chart_weather.png", "chart_threats.png",
     "chart_agegroups.png", "chart_species.png", "chart_status.png", "chart_causes.png"}
ChartPaths == {path_join(UPLOAD_FOLDER, n) : n \in ChartNames}

\* os.path.exists(path) for a path of the upload folder
Exists(disk, path) == path \in DOMAIN disk /\ disk[path] # 0

\* str(n) of a non-negative int, as code points
RECURSIVE PyStrInt(_)
PyStrInt(n) ==
    IF n < 10 THEN JChars(<<Digit(n)>>)
    ELSE JChars(Append(PyStrInt(n \div 10).cp, Digit(n % 10)))

\* str(category).replace('_', ' ').title() on the categories of the batches
HumanLabel(category) ==
    IF "cp" \in DOMAIN category THEN category
    ELSE CASE category.s = "boat_strike" -> JStr("Boat Strike")
           [] OTHER -> category

\* a variant that does not verify that the chart files exist
ValidateInputs_nocheck(chart_files_, observations_, disk) ==
    IF chart_files_ = <<>> THEN <<"No chart files provided">>
    ELSE IF observations_ = <<>> THEN <<"No observations provided">>
    ELSE <<>>

\* the exception the validation raises, <<>> when it passes
ValidateInputs(chart_files_, observations_, disk) ==
    IF chart_files_ = <<>> THEN <<"No chart files provided">>
    ELSE IF observations_ = <<>> THEN <<"No observations provided">>
    ELSE IF \E i \in DOMAIN chart_files_ : ~Exists(disk, chart_files_[i])
    THEN LET i == CHOOSE i \in DOMAIN chart_files_ :
                      /\ ~Exists(disk, chart_files_[i])
                      /\ \A j \in 1..(i - 1) : Exists(disk, chart_files_[j])
         IN  <<"Chart file not found: ", chart_files_[i]>>
    ELSE <<>>

Spacer == [f |-> "Spacer"]
PageBreak == [f |-> "PageBreak"]
Paragraph(text, style) == [f |-> "Paragraph", text |-> text, style |-> style]
Image(file, content) == [f |-> "Image", file |-> file, content |-> content]
Table(rows) == [f |-> "Table", rows |-> rows]

CoverPage(observations_, report_type_) ==
    << Spacer,
       Paragraph(<<IF report_type_ = "reportings" THEN JStr("Reportings Report")
                   ELSE JStr("Sightings Report")>>, "CustomTitle"),
       Spacer,
       Paragraph(<<JStr("<b>Report Generated</b><br/>"), JStr("datetime.now()")>>, "InfoStyle"),
       Spacer,
       Paragraph(<<JStr("<b>Total Observations</b><br/>"), PyStrInt(Len(observations_)),
                   JStr(" records")>>, "InfoStyle"),
       PageBreak >>

\* a variant whose table has no header row
SummaryTable_noHeader(entry) ==
    << Paragraph(<<JStr("<b>"), JStr(entry.title), JStr("</b>")>>, "Heading3"),
       Spacer,
       Table([r \in DOMAIN entry.data |->
                 <<HumanLabel(entry.data[r][1]), PyStrInt(entry.data[r][2])>>]) >>

SummaryTable(entry) ==
    << Paragraph(<<JStr("<b>"), JStr(entry.title), JStr("</b>")>>, "Heading3"),
       Spacer,
       Table(<< <<JStr("Category"), JStr("Frequency")>> >>
             \o [r \in DOMAIN entry.data |->
                    <<HumanLabel(entry.data[r][1]), PyStrInt(entry.data[r][2])>>]) >>

\* a variant that takes the tables in the opposite order of the charts
ChartPage_reversed(i, chart_files_, summary_data_, disk) ==
    << Image(chart_files_[i], disk[chart_files_[i]]), Spacer >>
    \o (IF summary_data_ # <<>> /\ i <= Len(summary_data_)
        THEN SummaryTable(summary_data_[Len(summary_data_) - i + 1]) ELSE <<>>)
    \o (IF i < Len(chart_files_) THEN <<PageBreak>> ELSE <<>>)

ChartPage(i, chart_files_, summary_data_, disk) ==
    << Image(chart_files_[i], disk[chart_files_[i]]), Spacer >>
    \o (IF summary_data_ # <<>> /\ i <= Len(summary_data_)
        THEN SummaryTable(summary_data_[i]) ELSE <<>>)
    \o (IF i < Len(chart_files_) THEN <<PageBreak>> ELSE <<>>)

create_pdf_report(chart_files_, output_path, observations_, summary_data_, report_type_, disk) ==
    LET e == ValidateInputs(chart_files_, observations_, disk)
    IN  IF e # <<>>
        THEN [raised |-> TRUE, err |-> e, created |-> FALSE, story |-> <<>>,
              output_path |-> output_path]
        ELSE [raised |-> FALSE, err |-> <<>>, created |-> TRUE,
              story |-> CoverPage(observations_, report_type_)
                        \o Concat([i \in DOMAIN chart_files_ |->
                               ChartPage(i, chart_files_, summary_data_, disk)]),
              output_path |-> output_path]

(***************************************************************************)
(* SpecPdf: one direct call of create_pdf_report.  The charts and entries  *)
(* are those an aggregator returned for a batch, or no chart at all; the   *)
(* observation list is the batch or empty; at most one chart file has      *)
(* gone from the disk.                                                     *)
(***************************************************************************)
MaxPdfObs == 3

PdfBatches ==
    UNION {{[i \in 1..n |-> Pool[ix[i]]] : ix \in [1..n -> DOMAIN Pool]} : n \in 1..MaxPdfObs}

\* the arguments of a call: the charts and entries an aggregator returned
\* for the batch, or no chart; the batch, or no observation
PdfArgChoices(v, b, ret) ==
    {[chart_files |-> cf, summary_data |-> ret.summary_data, observations |-> o,
      report_type |-> v, output_path |-> path_join(OUTPUT_FOLDER, "uuid.pdf")]
     : cf \in {ret.chart_files, <<>>}, o \in {b, <<>>}}

DiskChoices(chart_files_) ==
    LET full == [p \in ChartPaths |-> IF p \in Range(chart_files_) THEN 1 ELSE 0]
    IN  {full} \cup {[full EXCEPT ![p] = 0] : p \in Range(chart_files_)}

InitPdf ==
    /\ \E v \in {"sightings", "reportings"}, b \in PdfBatches :
         \E ret \in {generate_charts_for(v, b, UPLOAD_FOLDER, {})} :
            /\ ~ret.raised
            /\ pdfArgs \in PdfArgChoices(v, b, ret)
    /\ pdfDisk \in DiskChoices(pdfArgs.chart_files)
    /\ pdfPc = "start"
    /\ pdfResult = <<>>
    /\ renderFail = {}
    /\ AggIdle /\ AppIdle

CallCreatePdf ==
    /\ pdfPc = "start"
    /\ pdfResult' = create_pdf_report(pdfArgs.chart_files, pdfArgs.output_path,
                                       pdfArgs.observations, pdfArgs.summary_data,
                                       pdfArgs.report_type, pdfDisk)
    /\ pdfPc' = "done"
    /\ UNCHANGED <<pdfArgs, pdfDisk, aggVars, appVars>>

NextPdf == CallCreatePdf

SpecPdf == InitPdf /\ [][NextPdf]_vars

(***************************************************************************)
(* Properties of the aggregators (checked under SpecAgg).                  *)
(***************************************************************************)
AggDone == aggPc = "done"
Ret == aggResult.ret
Variant == aggResult.variant
Titles(sd) == [i \in DOMAIN sd |-> sd[i].title]

\* the fixed order of each variant's statistics
SightingsOrder ==
    <<"Monthly Frequency Summary", "Block Summary", "District Summary",
      "Water Body Type Summary", "Weather Condition Summary", "Threats Summary",
      "Age Group Summary">>
ReportingsOrder ==
    <<"Monthly Frequency Summary", "Block Summary", "District Summary",
      "Species Summary", "Status Summary", "Causes Summary", "Age Group Summary">>
OrderOf(variant) == IF variant = "reportings" THEN ReportingsOrder ELSE SightingsOrder
PosIn(order, title) == CHOOSE i \in DOMAIN order : order[i] = title

\* C3: a failure in any one statistic never aborts the aggregator: the call
\* returns, and every statistic that has data and does not itself fail is in
\* the result.
C3_FailureNeverAborts ==
    (AggDone /\ observations # <<>>) =>
        /\ ~Ret.raised
        /\ \A k \in 1..NumStats :
              Rendered(k, Statistic(Variant, k, observations), UPLOAD_FOLDER, renderFail).st = "ok"
                  => OrderOf(Variant)[k] \in Range(Titles(Ret.summary_data))

\* C8: the titles an aggregator returns are a duplicate-free subsequence of
\* the variant's fixed order.
C8_TitlesSubsequence ==
    AggDone =>
        LET t == Titles(Ret.summary_data)
            order == OrderOf(Variant)
        IN  /\ \A i \in DOMAIN t : t[i] \in Range(order)
            /\ \A i, j \in DOMAIN t : i < j => PosIn(order, t[i]) < PosIn(order, t[j])

C8_Witness ==
    /\ AggDone /\ ~Ret.raised
    /\ Len(Ret.summary_data) >= 4
    /\ "Block Summary" \notin Range(Titles(Ret.summary_data))
    /\ "District Summary" \in Range(Titles(Ret.summary_data))

\* The contributions a statistic has in a batch, read off the observations
\* as the data model describes them (every observation a mapping).
HasField(d, name) == name \in DOMAIN d.m
ParsesTo(obs, y, m) ==
    /\ HasField(obs, "observedAt") /\ obs.m["observedAt"].k = "str"
    /\ fromisoformat(obs.m["observedAt"].s).ok
    /\ fromisoformat(obs.m["observedAt"].s).year = y
    /\ fromisoformat(obs.m["observedAt"].s).month = m
Parsable(obs) ==
    /\ HasField(obs, "observedAt") /\ obs.m["observedAt"].k = "str"
    /\ fromisoformat(obs.m["observedAt"].s).ok
EntriesOf(obs, name) ==
    IF HasField(obs, name) /\ IsList(obs.m[name]) THEN obs.m[name].l ELSE <<>>
AllAgeGroups == <<"adult", "adultMale", "adultFemale", "subAdult", "unidentified">>
PositiveCount(sp, g) == HasField(sp, g) /\ IsInt(sp.m[g]) /\ sp.m[g].n > 0
PositiveStatus(sp, g) ==
    /\ HasField(sp, g) /\ IsDict(sp.m[g])
    /\ \E key \in StatusKeys : HasField(sp.m[g], key) /\ sp.m[g].m[key].n > 0

Contributes(variant, k, obs) ==
    CASE k = 1 -> Parsable(obs)
      [] k = 2 -> HasField(obs, "block") /\ Truthy(obs.m["block"])
      [] k = 3 -> HasField(obs, "district") /\ Truthy(obs.m["district"])
      [] k = 4 /\ variant = "sightings" -> HasField(obs, "waterBody") /\ Truthy(obs.m["waterBody"])
      [] k = 5 /\ variant = "sightings" ->
            HasField(obs, "weatherCondition") /\ Truthy(obs.m["weatherCondition"])
      [] k = 6 /\ variant = "sightings" -> HasField(obs, "threats") /\ Truthy(obs.m["threats"])
      [] k = 7 /\ variant = "sightings" ->
            \E j \in DOMAIN EntriesOf(obs, "species") : \E g \in DOMAIN AllAgeGroups :
                PositiveCount(EntriesOf(obs, "species")[j], AllAgeGroups[g])
      [] k = 4 /\ variant = "reportings" -> EntriesOf(obs, "species") # <<>>
      [] k = 5 /\ variant = "reportings" ->
            \E j \in DOMAIN EntriesOf(obs, "species") : \E g \in DOMAIN AllAgeGroups :
                PositiveStatus(EntriesOf(obs, "species")[j], AllAgeGroups[g])
      [] k = 6 /\ variant = "reportings" ->
            \E j \in DOMAIN EntriesOf(obs, "causes") :
                LET c == EntriesOf(obs, "causes")[j]
                IN  \/ HasField(c, "cause") /\ Truthy(c.m["cause"])
                    \/ HasField(c, "otherCause") /\ Truthy(c.m["otherCause"])
      [] k = 7 /\ variant = "reportings" ->
            \E j \in DOMAIN EntriesOf(obs, "species") : \E g \in DOMAIN StatusAgeGroups :
                PositiveStatus(EntriesOf(obs, "species")[j], StatusAgeGroups[g])

\* no statistic of the call fails: the batch is well-typed for the variant
\* and the environment renders every chart
NoFailure ==
    /\ renderFail = {}
    /\ \A k \in 1..NumStats : Statistic(Variant, k, observations).st # "error"

\* C9: a statistic is omitted exactly when nothing in the batch contributes
\* to it, and the omission raises no error.
C9_OmittedIffEmpty ==
    (AggDone /\ observations # <<>> /\ NoFailure) =>
        /\ ~Ret.raised
        /\ \A k \in 1..NumStats :
              (OrderOf(Variant)[k] \notin Range(Titles(Ret.summary_data)))
                  <=> (\A i \in DOMAIN observations : ~Contributes(Variant, k, observations[i]))

\* the year and month a YYYY-MM key (code points) denotes
KeyYear(key) ==
    (key.cp[1] - 48) * 1000 + (key.cp[2] - 48) * 100 + (key.cp[3] - 48) * 10 + (key.cp[4] - 48)
KeyMonth(key) == (key.cp[6] - 48) * 10 + (key.cp[7] - 48)
MonthlyEntries(sd) == {i \in DOMAIN sd : sd[i].title = "Monthly Frequency Summary"}

\* C10: the monthly entry lists its buckets in chronological ascending order,
\* each with the number of observations whose observedAt parses to that
\* year-month; absent and unparsable timestamps are skipped without error.
C10_MonthlyChronological ==
    (AggDone /\ AllDicts(observations) /\ 1 \notin renderFail /\ observations # <<>>) =>
        /\ MonthlyStat(observations).st # "error"
        /\ (MonthlyEntries(Ret.summary_data) = {})
              <=> (\A i \in DOMAIN observations : ~Parsable(observations[i]))
        /\ \A e \in MonthlyEntries(Ret.summary_data) :
              LET data == Ret.summary_data[e].data
              IN  /\ \A i, j \in DOMAIN data : i < j =>
                        KeyYear(data[i][1]) * 12 + KeyMonth(data[i][1])
                            < KeyYear(data[j][1]) * 12 + KeyMonth(data[j][1])
                  /\ \A i \in DOMAIN data :
                        data[i][2] = Cardinality({o \in DOMAIN observations :
                            ParsesTo(observations[o], KeyYear(data[i][1]), KeyMonth(data[i][1]))})
                  /\ \A o \in DOMAIN observations : Parsable(observations[o]) =>
                        \E i \in DOMAIN data :
                            ParsesTo(observations[o], KeyYear(data[i][1]), KeyMonth(data[i][1]))

\* a batch given latest month first, with a repeated month and an unparsable
\* timestamp, and its monthly entry
C10_Witness ==
    /\ AggDone /\ ~Ret.raised /\ Len(observations) = 3
    /\ ParsesTo(observations[1], 2025, 3)
    /\ ParsesTo(observations[2], 2024, 12)
    /\ ~Parsable(observations[3]) /\ HasField(observations[3], "observedAt")
    /\ \E e \in MonthlyEntries(Ret.summary_data) : Len(Ret.summary_data[e].data) = 2

\* the category occurrences of a counted statistic, in input order
Occurrences(title, obsv) ==
    CASE title = "Block Summary" -> ScalarField(obsv, "block")
      [] title = "District Summary" -> ScalarField(obsv, "district")
      [] title = "Water Body Type Summary" -> MultiField(obsv, "waterBody")
      [] title = "Weather Condition Summary" -> MultiField(obsv, "weatherCondition")
      [] title = "Threats Summary" ->
            Concat([i \in DOMAIN obsv |-> EntriesOf(obsv[i], "threats")])
      [] title = "Species Summary" ->
            [j \in DOMAIN SpeciesEntries(obsv) |->
                PyGet(SpeciesEntries(obsv)[j], "type", JStr("Unknown"))]
      [] title = "Causes Summary" ->
            Concat([j \in DOMAIN CauseItems(obsv) |-> CausesOf(CauseItems(obsv)[j])])
      [] OTHER -> <<>>

\* the input fields a category of a fixed-category statistic is summed from
\* (age-group statistics), or the status key it sums (status statistic)
FixedTitles == {"Age Group Summary", "Status Summary"}
AgeFieldsOf(category) ==
    CASE category = JStr("Adult") /\ Variant = "sightings" -> {"adult", "adultMale", "adultFemale"}
      [] category = JStr("Adult") /\ Variant = "reportings" -> {"adult"}
      [] category = JStr("Adult Male") -> {"adultMale"}
      [] category = JStr("Adult Female") -> {"adultFemale"}
      [] category = JStr("Sub-Adult") -> {"subAdult"}
      [] category = JStr("Unidentified") -> {"unidentified"}
      [] OTHER -> {}
StatusKeyOf(category) ==
    CASE category = JStr("Stranded") -> "stranded"
      [] category = JStr("Injured") -> "injured"
      [] category = JStr("Dead") -> "dead"
      [] OTHER -> "none"

\* species entry sp holds a positive number for the category
EncounteredIn(title, category, sp) ==
    IF title = "Status Summary"
    THEN \E g \in DOMAIN AllAgeGroups :
            /\ HasField(sp, AllAgeGroups[g]) /\ IsDict(sp.m[AllAgeGroups[g]])
            /\ HasField(sp.m[AllAgeGroups[g]], StatusKeyOf(category))
            /\ sp.m[AllAgeGroups[g]].m[StatusKeyOf(category)].n > 0
    ELSE \E g \in AgeFieldsOf(category) :
            IF Variant = "sightings" THEN PositiveCount(sp, g) ELSE PositiveStatus(sp, g)

\* where in the input a category is first encountered; past the end when never
FirstSeen(title, category, obsv) ==
    LET occ == IF title \in FixedTitles
               THEN [j \in DOMAIN SpeciesEntries(obsv) |->
                        EncounteredIn(title, category, SpeciesEntries(obsv)[j])]
               ELSE [j \in DOMAIN Occurrences(title, obsv) |->
                        Occurrences(title, obsv)[j] = category]
        hits == {j \in DOMAIN occ : occ[j]}
    IN  IF hits = {} THEN Len(occ) + 1 ELSE CHOOSE j \in hits : \A h \in hits : j <= h

NonMonthlyEntries(sd) == DOMAIN sd \ MonthlyEntries(sd)

\* C11: in every non-monthly Summary Entry the (category, count) pairs are
\* sorted by count descending, and categories with equal counts keep the
\* order in which they were first encountered in the input.
C11_CountDescendingTiesFirstSeen ==
    AggDone =>
        \A e \in NonMonthlyEntries(Ret.summary_data) :
            LET data == Ret.summary_data[e].data
                title == Ret.summary_data[e].title
            IN  \A i, j \in DOMAIN data : i < j =>
                    /\ data[i][2] >= data[j][2]
                    /\ data[i][2] = data[j][2] =>
                          FirstSeen(title, data[i][1], observations)
                              <= FirstSeen(title, data[j][1], observations)

\* C12: an aggregator leaves the observation list and every observation in
\* it structurally equal to what they were before the call, on normal return
\* and when the call raises.
C12_InputNotMutated ==
    AggDone => aggResult.observations_after = observations

\* a call that raised after its water-body loop had taken a list-valued and
\* then a scalar waterBody
C12_Witness ==
    /\ AggDone /\ Ret.raised /\ Variant = "sightings" /\ Len(observations) = 3
    /\ HasField(observations[1], "waterBody") /\ IsList(observations[1].m["waterBody"])
    /\ HasField(observations[2], "waterBody") /\ ~IsList(observations[2].m["waterBody"])
    /\ "Water Body Type Summary" \in Range(Titles(Ret.summary_data))

\* the count an entry list holds for a category of a statistic, 0 when the
\* statistic or the category is not in it
CountIn(sd, title, category) ==
    LET es == {e \in DOMAIN sd : sd[e].title = title}
    IN  IF es = {} THEN 0
        ELSE LET data == sd[CHOOSE e \in es : TRUE].data
                 is == {i \in DOMAIN data : data[i][1] = category}
             IN  IF is = {} THEN 0 ELSE data[CHOOSE i \in is : TRUE][2]

\* what an observation contributes to category s of a scalar-or-list field:
\* 1 for the bare string s, and for a list the occurrences of s in it
ContributionOf(obs, name, s) ==
    IF ~HasField(obs, name) THEN 0
    ELSE IF obs.m[name] = JStr(s) THEN 1
    ELSE IF IsList(obs.m[name])
    THEN Cardinality({i \in DOMAIN obs.m[name].l : obs.m[name].l[i] = JStr(s)})
    ELSE 0

CategoryStrings == {"River", "Sea", "Sunny", ""}
ScalarOrListFields ==
    << [k |-> 4, name |-> "waterBody", title |-> "Water Body Type Summary"],
       [k |-> 5, name |-> "weatherCondition", title |-> "Weather Condition Summary"] >>

\* C14: for waterBody and weatherCondition a bare string s contributes what
\* the one-element list [s] contributes: 1 to the count of category s.
C14_ScalarCountsAsOneElementList ==
    (AggDone /\ Variant = "sightings" /\ AllDicts(observations) /\ ~Ret.raised) =>
        \A f \in DOMAIN ScalarOrListFields : \A s \in CategoryStrings :
            ScalarOrListFields[f].k \notin renderFail =>
                CountIn(Ret.summary_data, ScalarOrListFields[f].title, JStr(s))
                    = Sum([i \in DOMAIN observations |->
                              ContributionOf(observations[i], ScalarOrListFields[f].name, s)])

\* the species entries of a batch of mappings, and the number an age-group
\* sub-structure of an entry holds for a status (0 for a missing key, a
\* missing age group or a value that is no mapping)
AllSpeciesEntries(obsv) == Concat([i \in DOMAIN obsv |-> EntriesOf(obsv[i], "species")])
StatusOf(sp, g, key) ==
    IF HasField(sp, g) /\ IsDict(sp.m[g]) /\ HasField(sp.m[g], key) /\ IsInt(sp.m[g].m[key])
    THEN sp.m[g].m[key].n ELSE 0
StatusTotal(obsv, groups, key) ==
    Sum([j \in DOMAIN AllSpeciesEntries(obsv) |->
        Sum([g \in DOMAIN groups |-> StatusOf(AllSpeciesEntries(obsv)[j], groups[g], key)])])

StatusLabels ==
    << [label |-> JStr("Stranded"), key |-> "stranded"],
       [label |-> JStr("Injured"), key |-> "injured"],
       [label |-> JStr("Dead"), key |-> "dead"] >>

\* the call reached statistic k and the statistic did not fail
Computed(k) ==
    /\ AggDone /\ ~Ret.raised /\ AllDicts(observations) /\ observations # <<>>
    /\ k \notin renderFail
    /\ Statistic(Variant, k, observations).st # "error"

\* C15: in the reportings variant the Stranded, Injured and Dead totals of the
\* Status statistic each equal the sum of that status over all five age-group
\* sub-structures of all species entries of all observations.
C15_StatusSumsAllAgeGroups ==
    (Variant = "reportings" /\ Computed(5)) =>
        \A x \in DOMAIN StatusLabels :
            CountIn(Ret.summary_data, "Status Summary", StatusLabels[x].label)
                = StatusTotal(observations, AllAgeGroups, StatusLabels[x].key)

ReportingsAgeLabels ==
    << [label |-> JStr("Adult"), group |-> "adult"],
       [label |-> JStr("Adult Male"), group |-> "adultMale"],
       [label |-> JStr("Adult Female"), group |-> "adultFemale"],
       [label |-> JStr("Sub-Adult"), group |-> "subAdult"] >>

\* the call reached statistic k: no statistic before it raised
Reached(k) ==
    /\ AggDone /\ AllDicts(observations) /\ observations # <<>>
    /\ ~AggRun(Variant, k - 1, observations, UPLOAD_FOLDER, renderFail).raised

\* C16: in the reportings variant each of Adult, Adult Male, Adult Female and
\* Sub-Adult of the age-group statistic equals the sum of stranded + injured +
\* dead of that age group over all species entries; a missing status key
\* counts as 0 and an age-group value that is no mapping contributes 0 and
\* raises nothing.
C16_ReportingsAgeGroupSums ==
    (Variant = "reportings" /\ Reached(7) /\ 7 \notin renderFail) =>
        /\ ~Ret.raised
        /\ \A x \in DOMAIN ReportingsAgeLabels :
              CountIn(Ret.summary_data, "Age Group Summary", ReportingsAgeLabels[x].label)
                  = StatusTotal(observations, <<ReportingsAgeLabels[x].group>>, "stranded")
                    + StatusTotal(observations, <<ReportingsAgeLabels[x].group>>, "injured")
                    + StatusTotal(observations, <<ReportingsAgeLabels[x].group>>, "dead")

\* adult {stranded: 1, injured: 2, dead: 0} next to an age group that holds a
\* number and one that lacks status keys
C16_Witness ==
    /\ Variant = "reportings" /\ Reached(7) /\ 7 \notin renderFail
    /\ CountIn(Ret.summary_data, "Age Group Summary", JStr("Adult")) = 3
    /\ CountIn(Ret.summary_data, "Age Group Summary", JStr("Sub-Adult")) = 2
    /\ \E j \in DOMAIN AllSpeciesEntries(observations) :
          /\ HasField(AllSpeciesEntries(observations)[j], "adultMale")
          /\ IsInt(AllSpeciesEntries(observations)[j].m["adultMale"])

(***************************************************************************)
(* Properties of create_pdf_report (checked under SpecPdf).                *)
(***************************************************************************)
PdfDone == pdfPc = "done"
PdfPreconditionViolated ==
    \/ pdfArgs.chart_files = <<>>
    \/ pdfArgs.observations = <<>>
    \/ \E i \in DOMAIN pdfArgs.chart_files : pdfDisk[pdfArgs.chart_files[i]] = 0

\* C7: with an empty chart sequence, a missing chart file or an empty
\* observation sequence, create_pdf_report raises an explicit error and no
\* output document is created.
C7_AssemblerFailsFast ==
    (PdfDone /\ PdfPreconditionViolated) =>
        /\ pdfResult.raised
        /\ pdfResult.err # <<>>
        /\ ~pdfResult.created
        /\ pdfResult.story = <<>>

C7_Witness ==
    /\ PdfDone /\ pdfResult.raised
    /\ pdfArgs.chart_files # <<>> /\ pdfArgs.observations # <<>>
    /\ \E i \in DOMAIN pdfArgs.chart_files : pdfDisk[pdfArgs.chart_files[i]] = 0

\* the pages of a story: the flowables between its page breaks
RECURSIVE Pages(_)
Pages(story) ==
    IF \A i \in DOMAIN story : story[i] # PageBreak THEN <<story>>
    ELSE LET b == CHOOSE i \in DOMAIN story :
                      story[i] = PageBreak /\ \A j \in 1..(i - 1) : story[j] # PageBreak
         IN  <<SubSeq(story, 1, b - 1)>> \o Pages(SubSeq(story, b + 1, Len(story)))

\* the decimal digits of a count, as code points
RECURSIVE Decimal(_)
Decimal(n) == IF n < 10 THEN <<48 + n>> ELSE Append(Decimal(n \div 10), 48 + (n % 10))

PdfPages == Pages(pdfResult.story)
TablesOf(page) == {x \in DOMAIN page : page[x].f = "Table"}

\* C17: for N charts with N Summary Entries the document is a cover page
\* stating '<count> records' for the observations submitted, followed by
\* exactly N chart pages, a page break between every two consecutive pages;
\* each chart page's table has the header row Category | Frequency and then
\* one row per (category, count) pair of its entry, in the entry's order.
C17_DocumentLayout ==
    (PdfDone /\ ~pdfResult.raised
        /\ Len(pdfArgs.chart_files) = Len(pdfArgs.summary_data)) =>
        /\ Len(PdfPages) = Len(pdfArgs.chart_files) + 1
        /\ Cardinality({x \in DOMAIN pdfResult.story : pdfResult.story[x] = PageBreak})
              = Len(pdfArgs.chart_files)
        /\ \E x \in DOMAIN PdfPages[1] :
              /\ PdfPages[1][x].f = "Paragraph"
              /\ PdfPages[1][x].text =
                    <<JStr("<b>Total Observations</b><br/>"),
                      JChars(Decimal(Len(pdfArgs.observations))), JStr(" records")>>
        /\ \A i \in DOMAIN pdfArgs.chart_files :
              LET page == PdfPages[i + 1]
                  data == pdfArgs.summary_data[i].data
              IN  /\ Cardinality({x \in DOMAIN page : page[x].f = "Image"}) = 1
                  /\ \E x \in DOMAIN page :
                        page[x].f = "Image" /\ page[x].file = pdfArgs.chart_files[i]
                  /\ Cardinality(TablesOf(page)) = 1
                  /\ \A x \in TablesOf(page) :
                        /\ page[x].rows[1] = <<JStr("Category"), JStr("Frequency")>>
                        /\ Len(page[x].rows) = Len(data) + 1
                        /\ \A r \in DOMAIN data :
                              /\ page[x].rows[r + 1][1] = HumanLabel(data[r][1])
                              /\ page[x].rows[r + 1][2] = JChars(Decimal(data[r][2]))

\* the document of three sightings that share the district Coastal, with a
\* table of several rows
C17_Witness ==
    /\ PdfDone /\ ~pdfResult.raised
    /\ Len(pdfArgs.observations) = 3
    /\ Len(pdfArgs.chart_files) >= 3
    /\ \E i \in DOMAIN pdfArgs.summary_data :
          /\ pdfArgs.summary_data[i].title = "District Summary"
          /\ pdfArgs.summary_data[i].data = << <<JStr("Coastal"), 3>> >>
    /\ \E i \in DOMAIN pdfArgs.summary_data : Len(pdfArgs.summary_data[i].data) >= 2

(***************************************************************************)
(* _generate_report (src/src/app.py).  Calls run concurrently on the       *)
(* shared folders; each call is a sequence of steps, one per access to     *)
(* the filesystem.                                                         *)
(***************************************************************************)
Calls == {1, 2}
ReportTypes == {"sightings", "reportings"}

\* what MAX_OBSERVATIONS the deployment configures: the default, or a lower one
ConfiguredMaxima == {DefaultMaxObservations, 2}

\* the request body: unparsable, absent, or JSON data
Malformed == [parse |-> "malformed"]
Absent == [parse |-> "absent"]
Json(v) == [parse |-> "ok", data |-> v]

\* one more observation than the default maximum
TooManyObservations == [i \in 1..(DefaultMaxObservations + 1) |-> JDict(EmptyMap)]

Requests ==
    { [is_json |-> TRUE, body |-> Malformed],
      [is_json |-> TRUE, body |-> Json(JNone)],
      [is_json |-> FALSE, body |-> Absent],
      [is_json |-> FALSE, body |-> Malformed],
      [is_json |-> FALSE, body |-> Json(JNone)],
      [is_json |-> TRUE, body |-> Json(JStr("hello"))],
      [is_json |-> TRUE, body |-> Json(JList(<<>>))],
      [is_json |-> TRUE, body |-> Json(JDict([result |-> JList(<<>>)]))],
      [is_json |-> TRUE, body |-> Json(JDict([result |-> JStr("abc")]))],
      [is_json |-> FALSE, body |-> Json(JDict([data |-> JInt(7)]))],
      [is_json |-> TRUE, body |-> Json(JList(TooManyObservations))],
      [is_json |-> TRUE, body |-> Json(Pool[1])],
      [is_json |-> TRUE, body |-> Json(JList(<<Pool[1]>>))],
      [is_json |-> TRUE, body |-> Json(JList(<<Pool[4]>>))],
      [is_json |-> TRUE, body |-> Json(JList(<<Pool[6]>>))],
      [is_json |-> TRUE, body |-> Json(JList(<<Pool[8]>>))],
      [is_json |-> TRUE, body |-> Json(JList(<<Pool[2], Pool[3], Pool[4]>>))],
      [is_json |-> FALSE, body |-> Json(JDict([result |-> JList(<<Pool[6]>>)]))],
      [is_json |-> FALSE, body |-> Json(JDict([data |-> JList(<<Pool[8]>>)]))] }

\* jsonify({'error': ...}), status  /  send_file(pdf_path, ...)
NoResponse == [status |-> 0, error |-> <<>>, document |-> ""]
Error(status, message) == [status |-> status, error |-> message, document |-> ""]
Document(path) == [status |-> 200, error |-> <<>>, document |-> path]

\* the `except Exception` of the whole handler
UnexpectedError == Error(500, <<"An unexpected error occurred. Please try again later">>)

\* lines 99-137: the data of the request, its observations, their validation
Validate(req) ==
    IF req.is_json /\ req.body.parse # "ok"
    THEN [st |-> "raise"]   \* request.get_json() raises BadRequest
    ELSE IF req.is_json /\ req.body.data = JNone
    THEN [st |-> "error", response |-> Error(400, <<"Invalid JSON data">>)]
    ELSE IF ~req.is_json /\ req.body.parse = "absent"
    THEN [st |-> "error", response |-> Error(400, <<"No data provided">>)]
    ELSE IF ~req.is_json /\ req.body.parse = "malformed"
    THEN [st |-> "error",
          response |-> Error(400, <<"Invalid JSON format: ", "Expecting value: line 1 column 1 (char 0)">>)]
    ELSE LET data == req.body.data
         IN  IF ~IsDict(data) /\ ~IsList(data)
             THEN [st |-> "error",
                   response |-> Error(400, <<"Data must be a JSON object or array">>)]
             ELSE LET obsv == IF IsDict(data)
                              THEN IF "result" \in DOMAIN data.m THEN data.m["result"]
                                   ELSE IF "data" \in DOMAIN data.m THEN data.m["data"]
                                   ELSE JList(<<data>>)
                              ELSE data
                  IN  IF ~Truthy(obsv)
                      THEN [st |-> "error",
                            response |-> Error(400, <<"No observations found in data">>)]
                      ELSE IF ~IsList(obsv)
                      THEN [st |-> "error",
                            response |-> Error(400, <<"Observations must be an array">>)]
                      ELSE IF Len(obsv.l) > 10000
                      THEN [st |-> "error",
                            response |-> Error(400, <<"Too many observations. Maximum 10,000 allowed">>)]
                      ELSE [st |-> "ok", observations |-> obsv.l]

\* a variant without the inner try around the chart generation: the
\* exception reaches the handler's `except Exception`
ChartFailure_generic(err) == UnexpectedError

\* lines 145-146, 148-149, 158-159, 162-163
ChartFailure(err) == Error(500, <<"Chart generation failed: ">> \o err)
NoCharts == Error(400, <<"No charts generated. Please check your data contains valid fields">>)
PdfFailure(err) == Error(500, <<"PDF generation failed: ">> \o err)
PdfNotCreated == Error(500, <<"PDF file was not created">>)

\* str(uuid.uuid4()) of a call, and its pdf_path
uuid4(c) == IF c = 1 THEN "uuid-of-call-1" ELSE "uuid-of-call-2"
PdfPath(c) == path_join(OUTPUT_FOLDER, uuid4(c) \o ".pdf")

\* the input errors of the error taxonomy, for a request and a configured maximum
RequestObservations(req) ==
    LET data == req.body.data
    IN  IF IsDict(data)
        THEN IF "result" \in DOMAIN data.m THEN data.m["result"]
             ELSE IF "data" \in DOMAIN data.m THEN data.m["data"]
             ELSE JList(<<data>>)
        ELSE data
InputError(req, max) ==
    \/ req.body.parse # "ok"                                  \* malformed JSON, no data
    \/ /\ req.body.parse = "ok"
       /\ \/ ~IsDict(req.body.data) /\ ~IsList(req.body.data) \* neither object nor array
          \/ /\ IsDict(req.body.data) \/ IsList(req.body.data)
             /\ \/ ~IsList(RequestObservations(req))           \* not an array
                \/ /\ IsList(RequestObservations(req))
                   /\ \/ RequestObservations(req).l = <<>>     \* empty observation set
                      \/ Len(RequestObservations(req).l) > max \* batch too large

\* the environment renders every chart, or fails the third one
AppRenderFailChoices == {{}, {3}}

\* what a call has done so far (history, for the properties)
EventStart ==
    [received |-> FALSE, input_error |-> FALSE, core |-> FALSE, assembler |-> FALSE,
     failure |-> "none", written |-> {}, story |-> <<>>]

Init ==
    /\ MAX_OBSERVATIONS \in ConfiguredMaxima
    /\ report_type \in [Calls -> ReportTypes]
    /\ renderFail \in AppRenderFailChoices
    /\ pc = [c \in Calls |-> "clean"]
    /\ req_obs = [c \in Calls |-> <<>>]
    /\ stat = [c \in Calls |-> 0]
    /\ acc = [c \in Calls |-> AggStart]
    /\ chart_files = [c \in Calls |-> <<>>]
    /\ summary_data = [c \in Calls |-> <<>>]
    /\ response = [c \in Calls |-> NoResponse]
    /\ event = [c \in Calls |-> EventStart]
    /\ upload = [p \in ChartPaths |-> 0]
    /\ output = {}
    /\ AggIdle /\ PdfIdle

\* lines 83-97: every file of OUTPUT_FOLDER is unlinked
CleanOutput(c) ==
    /\ pc[c] = "clean"
    /\ output' = {}
    /\ pc' = [pc EXCEPT ![c] = "parse"]
    /\ UNCHANGED <<MAX_OBSERVATIONS, req_obs, report_type, stat, acc, chart_files,
                   summary_data, response, event, upload, renderFail, aggVars, pdfVars>>

\* lines 99-137
HandleRequest(c) ==
    /\ pc[c] = "parse"
    /\ \E req \in Requests :
         \E v \in {Validate(req)} :
         LET e == [event[c] EXCEPT !.received = TRUE,
                                   !.input_error = InputError(req, MAX_OBSERVATIONS)]
         IN  /\ response' = [response EXCEPT ![c] =
                    IF v.st = "raise" THEN UnexpectedError
                    ELSE IF v.st = "error" THEN v.response ELSE @]
             /\ req_obs' = [req_obs EXCEPT ![c] = IF v.st = "ok" THEN v.observations ELSE @]
             /\ stat' = [stat EXCEPT ![c] = IF v.st = "ok" THEN 1 ELSE @]
             /\ pc' = [pc EXCEPT ![c] = IF v.st = "ok" THEN "charts" ELSE "finally"]
             /\ event' = [event EXCEPT ![c] = [e EXCEPT !.core = (v.st = "ok")]]
    /\ UNCHANGED <<MAX_OBSERVATIONS, report_type, acc, chart_files, summary_data, upload,
                   output, renderFail, aggVars, pdfVars>>

\* lines 139-149: statistic stat[c] of the aggregator; after the last one
\* the function returns and `if not chart_files` is tested
ChartStep(c) ==
    /\ pc[c] = "charts"
    /\ \E a \in {AggStep(report_type[c], stat[c], req_obs[c], UPLOAD_FOLDER, renderFail, acc[c])} :
       LET k == stat[c]
           wrote == Len(a.chart_files) > Len(acc[c].chart_files)
           file == a.chart_files[Len(a.chart_files)]
       IN  /\ acc' = [acc EXCEPT ![c] = a]
           /\ upload' = IF wrote THEN [upload EXCEPT ![file] = c] ELSE upload
           /\ stat' = [stat EXCEPT ![c] = IF ~a.raised /\ k < NumStats THEN k + 1 ELSE @]
           /\ chart_files' = [chart_files EXCEPT ![c] =
                  IF ~a.raised /\ k = NumStats THEN a.chart_files ELSE @]
           /\ summary_data' = [summary_data EXCEPT ![c] =
                  IF ~a.raised /\ k = NumStats THEN a.summary_data ELSE @]
           /\ response' = [response EXCEPT ![c] =
                  IF a.raised THEN ChartFailure(a.err)
                  ELSE IF k = NumStats /\ a.chart_files = <<>> THEN NoCharts ELSE @]
           /\ pc' = [pc EXCEPT ![c] =
                  IF a.raised THEN "finally"
                  ELSE IF k < NumStats THEN "charts"
                  ELSE IF a.chart_files = <<>> THEN "finally" ELSE "pdf"]
           /\ event' = [event EXCEPT ![c].written = IF wrote THEN @ \cup {file} ELSE @,
                                     ![c].failure =
                                        IF a.raised THEN "chart_generation_raised"
                                        ELSE IF k = NumStats /\ a.chart_files = <<>>
                                        THEN "no_statistic" ELSE @]
    /\ UNCHANGED <<MAX_OBSERVATIONS, req_obs, report_type, output, renderFail,
                   aggVars, pdfVars>>

\* lines 151-159
CreatePdf(c) ==
    /\ pc[c] = "pdf"
    /\ \E r \in {create_pdf_report(chart_files[c], PdfPath(c), req_obs[c], summary_data[c],
                                    report_type[c], upload)} :
           /\ output' = IF r.created THEN output \cup {PdfPath(c)} ELSE output
           /\ response' = [response EXCEPT ![c] = IF r.raised THEN PdfFailure(r.err) ELSE @]
           /\ pc' = [pc EXCEPT ![c] = IF r.raised THEN "finally" ELSE "verify"]
           /\ event' = [event EXCEPT ![c].assembler = TRUE,
                                     ![c].failure = IF r.raised THEN "assembler_raised" ELSE @,
                                     ![c].story = r.story]
    /\ UNCHANGED <<MAX_OBSERVATIONS, req_obs, report_type, stat, acc, chart_files,
                   summary_data, upload, renderFail, aggVars, pdfVars>>

\* lines 161-163
VerifyPdf(c) ==
    /\ pc[c] = "verify"
    /\ response' = [response EXCEPT ![c] = IF PdfPath(c) \notin output THEN PdfNotCreated ELSE @]
    /\ pc' = [pc EXCEPT ![c] = IF PdfPath(c) \notin output THEN "finally" ELSE "send"]
    /\ UNCHANGED <<MAX_OBSERVATIONS, req_obs, report_type, stat, acc, chart_files,
                   summary_data, event, upload, output, renderFail, aggVars, pdfVars>>

\* line 165: send_file opens the file; FileNotFoundError ends in `except Exception`
SendFile(c) ==
    /\ pc[c] = "send"
    /\ response' = [response EXCEPT ![c] =
           IF PdfPath(c) \in output THEN Document(PdfPath(c)) ELSE UnexpectedError]
    /\ pc' = [pc EXCEPT ![c] = "finally"]
    /\ UNCHANGED <<MAX_OBSERVATIONS, req_obs, report_type, stat, acc, chart_files,
                   summary_data, event, upload, output, renderFail, aggVars, pdfVars>>

\* lines 171-178: every file of chart_files that exists is removed
Finally(c) ==
    /\ pc[c] = "finally"
    /\ upload' = [p \in ChartPaths |-> IF p \in Range(chart_files[c]) THEN 0 ELSE upload[p]]
    /\ pc' = [pc EXCEPT ![c] = "done"]
    /\ UNCHANGED <<MAX_OBSERVATIONS, req_obs, report_type, stat, acc, chart_files,
                   summary_data, response, event, output, renderFail, aggVars, pdfVars>>

Next ==
    \E c \in Calls :
        \/ CleanOutput(c)
        \/ HandleRequest(c)
        \/ ChartStep(c)
        \/ CreatePdf(c)
        \/ VerifyPdf(c)
        \/ SendFile(c)
        \/ Finally(c)

Spec == Init /\ [][Next]_vars

(***************************************************************************)
(* Properties of _generate_report.                                         *)
(***************************************************************************)
Returned(c) == pc[c] = "done"
InternalPaths == ChartPaths \cup {PdfPath(c) : c \in Calls} \cup {UPLOAD_FOLDER, OUTPUT_FOLDER}

\* C1: the chart paths written by two concurrent calls are never the same, so
\* between the rendering of a chart file and the assembly of its call's PDF
\* the file is still the one that call rendered: no other call has
\* overwritten or deleted it.
C1_ChartPathsNeverCollide ==
    /\ \A c \in Calls : \A d \in Calls \ {c} : event[c].written \cap event[d].written = {}
    /\ \A c \in Calls :
          pc[c] \in {"charts", "pdf"} => \A f \in event[c].written : upload[f] = c

\* C2: when a call has returned, on whatever exit path, none of the chart
\* files it wrote is left on disk.
C2_WrittenChartsDeleted ==
    \A c \in Calls : Returned(c) => \A f \in event[c].written : upload[f] # c

\* C4: a request with an input error (malformed JSON, no data, payload neither
\* object nor array, empty observation set, observations not an array, more
\* observations than the configured MAX_OBSERVATIONS) is answered with a
\* client-side error, and neither the chart generation nor create_pdf_report
\* is invoked.
C4_InputErrorsRejected ==
    \A c \in Calls :
        event[c].received /\ event[c].input_error =>
            /\ ~event[c].core /\ ~event[c].assembler
            /\ response[c].status \in 400..499

\* the stage a message names
NamesStage(message, failure) ==
    /\ message # <<>>
    /\ CASE failure = "no_statistic" ->
               message[1] = "No charts generated. Please check your data contains valid fields"
         [] failure = "chart_generation_raised" -> message[1] = "Chart generation failed: "
         [] failure = "assembler_raised" -> message[1] = "PDF generation failed: "
         [] OTHER -> FALSE

C6_NoPathInErrorMessage ==
    \A c \in Calls :
        \A i \in DOMAIN response[c].error : response[c].error[i] \notin InternalPaths

\* the chart file of a statistic, by the title of its Summary Entry
ChartFileOf(title) ==
    CASE title = "Monthly Frequency Summary" -> "chart_monthly_frequency.png"
      [] title = "Block Summary" -> "chart_blocks.png"
      [] title = "District Summary" -> "chart_districts.png"
      [] title = "Water Body Type Summary" -> "chart_waterbodies.png"
      [] title = "Weather Condition Summary" -> "chart_weather.png"
      [] title = "Threats Summary" -> "chart_threats.png"
      [] title = "Age Group Summary" -> "chart_agegroups.png"
      [] title = "Species Summary" -> "chart_species.png"
      [] title = "Status Summary" -> "chart_status.png"
      [] title = "Causes Summary" -> "chart_causes.png"
      [] OTHER -> "no chart"

Aligned(cf, sd) ==
    /\ Len(cf) = Len(sd)
    /\ \A i \in DOMAIN cf : cf[i] = path_join(UPLOAD_FOLDER, ChartFileOf(sd[i].title))

OnPage(page, chart_file, entry) ==
    /\ \E x \in DOMAIN page : page[x].f = "Image" /\ page[x].file = chart_file
    /\ \E x \in DOMAIN page :
          /\ page[x].f = "Paragraph"
          /\ page[x].text = <<JStr("<b>"), JStr(entry.title), JStr("</b>")>>
    /\ \E x \in DOMAIN page :
          /\ page[x].f = "Table"
          /\ Len(page[x].rows) = Len(entry.data) + 1
          /\ \A r \in DOMAIN entry.data : page[x].rows[r + 1][2] = PyStrInt(entry.data[r][2])

\* C13: at every point of a call the chart-file list and the Summary Entry
\* list have the same length and the i-th chart is the chart of the i-th
\* entry, and the document holds the i-th entry's table on the page of the
\* i-th chart.
C13_ChartsAndEntriesAligned ==
    \A c \in Calls :
        /\ Aligned(acc[c].chart_files, acc[c].summary_data)
        /\ Aligned(chart_files[c], summary_data[c])
        /\ event[c].story # <<>> =>
              /\ Len(Pages(event[c].story)) = Len(chart_files[c]) + 1
              /\ \A i \in DOMAIN chart_files[c] :
                    OnPage(Pages(event[c].story)[i + 1], chart_files[c][i], summary_data[c][i])

\* a document of several charts, while the other call is still generating
C13_Witness ==
    \E c \in Calls : \E d \in Calls \ {c} :
        /\ event[c].story # <<>> /\ Len(chart_files[c]) >= 4
        /\ pc[d] = "charts" /\ Len(acc[d].chart_files) >= 2

\* C18: once a call has created its PDF, the PDF still exists when the call
\* sends it, whatever the other calls do in between (their clean-up of the
\* output directory included).
C18_PdfExistsWhenSent ==
    \A c \in Calls : pc[c] \in {"verify", "send"} => PdfPath(c) \in output

=============================================================================
